---- MODULE Spec2Model ----
(***************************************************************************)
(* Model of src/events.js: the Vue event system plugin.                    *)
(*                                                                         *)
(*   Vue.Events.local   : handler registry + synchronous emit              *)
(*   Vue.Events.remote  : handler registry + WebSocket client, outbound    *)
(*                        queue (socketPump) and the 250 ms pump timer     *)
(*   Vue.prototype.$events : $on / $once / $off / $emit facade             *)
(*                                                                         *)
(* Strings that are event identifiers are sequences of one-character       *)
(* strings so that the camelCase regular expressions can be computed.      *)
(* JavaScript values are records tagged with their type.                   *)
(***************************************************************************)
EXTENDS Integers, Sequences, FiniteSets, TLC

\* ------------------------------------------------------------ bounds
\* total number of handler entries held by the two registries
MaxEntries == 2
\* length of the outbound queue
MaxQueue == 2
\* number of payloads ever enqueued in one behaviour (sequence numbers)
MaxEmits == 2
\* number of WebSocket objects ever created in one behaviour
MaxSockets == 2
\* longest raw identifier whose normalization is explored on its own
MaxIdLen == 4

\* ------------------------------------------------------------ inputs
\* raw event names used by callers and by the peer
RawIds == { <<"a", "-", "b">>, <<"a", "-", "1">> }

\* user callbacks
Callbacks == { "c1", "c2" }

\* user callbacks that, when run, detach themselves from the identifier they
\* are being dispatched for:  Vue.Events[channel].detach(identifier, self)
SelfDetaching == { "d1" }

Channels == { "local", "remote" }

\* ------------------------------------------------------------ JS values
Undefined == [type |-> "undefined"]
Num(n) == [type |-> "number", num |-> n]
Str(s) == [type |-> "string", str |-> s]
Obj(props) == [type |-> "object", props |-> props]
Arr(items) == [type |-> "array", items |-> items, props |-> {}]

\* typeof v
TypeOf(v) == IF v.type = "array" THEN "object" ELSE v.type

\* ToBoolean(v), as used by  arguments[1] || []
Truthy(v) ==
  CASE v.type = "undefined" -> FALSE
    [] v.type = "number" -> v.num # 0
    [] v.type = "string" -> v.str # <<>>
    [] OTHER -> TRUE

\* o[k] = v on an object or an array
SetProp(o, k, v) ==
  [o EXCEPT !.props = { p \in @ : p[1] # k } \cup { <<k, v>> }]

HasProp(o, k) == \E p \in o.props : p[1] = k

GetProp(o, k) == (CHOOSE p \in o.props : p[1] = k)[2]

\* JSON.stringify(v), given by the value JSON.parse reads back from it: an
\* array is written as its elements only, its named properties are dropped
JSONstringify(v) ==
  IF v.type = "array" THEN Arr(v.items) ELSE v

\* the argument lists callers pass after the identifier
ArgLists ==
  { <<>>,
    << Num(42) >>,
    << Num(0) >>,
    << Obj({ <<"name", Str(<<"x">>)>> }) >>,
    << Num(1), Num(2) >> }

\* ------------------------------------------------------------ camelCase
Letters == { "a", "b", "A", "B" }
Digits == { "1" }

\* String.prototype.toUpperCase on one character
toUpperCase(c) ==
  CASE c = "a" -> "A"
    [] c = "b" -> "B"
    [] OTHER -> c

\* s.replace(/-(<class>)/gi, (s, group1) => group1.toUpperCase()): the global
\* scan from position i; a match consumes the dash and the character
\* the same replace without the g flag: only the first match is replaced
RECURSIVE replaceFirstFrom(_, _, _)
replaceFirstFrom(s, i, class) ==
  IF i > Len(s) THEN << >>
  ELSE IF s[i] = "-" /\ i < Len(s) /\ s[i + 1] \in class
       THEN << toUpperCase(s[i + 1]) >> \o SubSeq(s, i + 2, Len(s))
       ELSE << s[i] >> \o replaceFirstFrom(s, i + 1, class)

RECURSIVE replaceFrom(_, _, _)
replaceFrom(s, i, class) ==
  IF i > Len(s) THEN << >>
  ELSE IF s[i] = "-" /\ i < Len(s) /\ s[i + 1] \in class
       THEN << toUpperCase(s[i + 1]) >> \o replaceFrom(s, i + 2, class)
       ELSE << s[i] >> \o replaceFrom(s, i + 1, class)

\* /-([A-Za-z0-9])/gi : attach, detach and messageHandler
camelCaseAlnum(identifier) == replaceFrom(identifier, 1, Letters \cup Digits)

\* /-([a-z])/gi : local emitHandler
camelCaseAlpha(identifier) == replaceFrom(identifier, 1, Letters)

\* every key a registry can be asked for
Keys ==
  { camelCaseAlnum(r) : r \in RawIds } \cup { camelCaseAlpha(r) : r \in RawIds }

\* ------------------------------------------------------------ registry
\* Handlers[key]: undefined (never set), null (detach(id)) or an array
NoSlot == [tag |-> "undefined", list |-> << >>]
NullSlot == [tag |-> "null", list |-> << >>]
ArraySlot(list) == [tag |-> "array", list |-> list]

\* Object.create(null)
EmptyHandlers == [k \in Keys |-> NoSlot]

\* a plain user function and the closure `once` built by $once
Fn(c) == [kind |-> "fn", name |-> c]
OnceWrapper(c) == [kind |-> "once", fn |-> Fn(c)]

\* a value of a component's events map that is an object with an optional
\* local and an optional remote function
Decl(c, hasLocal, hasRemote) ==
  [kind |-> "decl", name |-> c, local |-> hasLocal, remote |-> hasRemote]

Callables == { Fn(c) : c \in Callbacks } \cup { OnceWrapper(c) : c \in Callbacks }

\* callback.fn
FnOf(callback) == IF callback.kind = "once" THEN callback.fn ELSE Undefined

Entry(callback, thisArg) == [callback |-> callback, thisArg |-> thisArg]

\* a slot is truthy when it is an array, the empty array included
SlotTruthy(slot) == slot.tag = "array"

\* number of entries held by one registry
RECURSIVE SumOver(_, _)
SumOver(H, ks) ==
  IF ks = {} THEN 0
  ELSE LET k == CHOOSE x \in ks : TRUE
       IN Len(H[k].list) + SumOver(H, ks \ {k})

EntryCount(H) == SumOver(H, Keys)

\* attachHandler(identifier, callback, thisArg)
attachHandler(H, identifier, callback, thisArg) ==
  LET key == camelCaseAlnum(identifier)
      old == IF SlotTruthy(H[key]) THEN H[key].list ELSE << >>
  IN [H EXCEPT ![key] = ArraySlot(Append(old, Entry(callback, thisArg)))]

\* Handler.splice(index, 1)
splice(list, index) ==
  SubSeq(list, 1, index - 1) \o SubSeq(list, index + 1, Len(list))

\* a removal that stops at the first matching entry
detachFirstOnly(list, index, callback) ==
  LET hits == { i \in DOMAIN list :
                  list[i].callback = callback \/ FnOf(list[i].callback) = callback }
  IN IF hits = {} THEN list
     ELSE splice(list, CHOOSE i \in hits : \A j \in hits : i <= j)

\* for (let index = Handler.length - 1; index >= 0; index--) ... splice
\* (index is 1-based here)
RECURSIVE detachLoop(_, _, _)
detachLoop(list, index, callback) ==
  IF index < 1 THEN list
  ELSE IF list[index].callback = callback \/ FnOf(list[index].callback) = callback
       THEN detachLoop(splice(list, index), index - 1, callback)
       ELSE detachLoop(list, index - 1, callback)

\* detachHandler(identifier, callback) called with the argument list args;
\* gives the registry afterwards and whether a TypeError was thrown.  With no
\* argument, identifier is undefined and identifier.replace throws before
\* the arguments.length test is reached (camelCase is always on).
detachHandler(H, args) ==
  IF Len(args) = 0 THEN [Handlers |-> H, threw |-> TRUE]
  ELSE
    LET key == camelCaseAlnum(args[1])
    IN IF ~SlotTruthy(H[key]) THEN [Handlers |-> H, threw |-> FALSE]
       ELSE IF Len(args) = 1
            THEN [Handlers |-> [H EXCEPT ![key] = NullSlot], threw |-> FALSE]
            ELSE [Handlers |->
                    [H EXCEPT ![key] =
                       ArraySlot(detachLoop(H[key].list, Len(H[key].list), args[2]))],
                  threw |-> FALSE]

\* one call  Event.callback.apply(Event.thisArg, [arg]) .  The closure `once`
\* evaluates Vue.remote.detach first; the plugin never defines Vue.remote, so
\* that is a TypeError and the wrapped callback is not reached.  An events-map
\* object has no apply method: a TypeError as well.
Invoke(entry, arg) ==
  IF entry.callback.kind \in { "once", "decl" }
  THEN [call |-> [callback |-> entry.callback, ran |-> "none", arg |-> arg],
        threw |-> TRUE]
  ELSE [call |-> [callback |-> entry.callback, ran |-> entry.callback.name,
                  arg |-> arg],
        threw |-> FALSE]

\* what running the callback of an entry does to the array being iterated: a
\* self-detaching callback calls detach(identifier, self), whose loop splices
\* this same array
AfterCall(Events, entry) ==
  IF entry.callback.kind = "fn" /\ entry.callback.name \in SelfDetaching
  THEN detachLoop(Events, Len(Events), entry.callback)
  ELSE Events

\* Events.forEach((Event) => Event.callback.apply(Event.thisArg, [arg])) from
\* index i on.  Array.prototype.forEach reads the length once (len) and then
\* visits the indices in ascending order, skipping an index that is no
\* longer in the array; an exception ends the iteration.  list is the array
\* afterwards.
RECURSIVE forEach(_, _, _, _)
forEach(Events, i, len, arg) ==
  IF i > len THEN [calls |-> << >>, threw |-> FALSE, list |-> Events]
  ELSE IF i > Len(Events) THEN forEach(Events, i + 1, len, arg)
  ELSE LET r == Invoke(Events[i], arg)
           after == AfterCall(Events, Events[i])
       IN IF r.threw THEN [calls |-> << r.call >>, threw |-> TRUE, list |-> after]
          ELSE LET rest == forEach(after, i + 1, len, arg)
               IN [calls |-> << r.call >> \o rest.calls, threw |-> rest.threw,
                   list |-> rest.list]

\* local emitHandler(identifier, ...rest).  options.identifier is undefined
\* in the local closure, so the identifier is stored under the property
\* "undefined" of args; when args is the caller's own object the caller
\* sees the new property (rest is returned as the caller sees it afterwards).
localEmit(H, identifier, rest) ==
  LET key == camelCaseAlpha(identifier)
      Events == H[key]
      args0 == IF Len(rest) + 1 > 2 THEN Arr(rest)
               ELSE IF Len(rest) + 1 > 1 THEN rest[1] ELSE Arr(<< >>)
      args1 == IF TypeOf(args0) # "object"
               THEN Obj({ <<"arguments", args0>> }) ELSE args0
      args == SetProp(args1, "undefined", Str(key))
      run == IF SlotTruthy(Events)
             THEN forEach(Events.list, 1, Len(Events.list), args)
             ELSE [calls |-> << >>, threw |-> FALSE, list |-> << >>]
  IN [matched |-> SlotTruthy(Events) /\ ~run.threw,   \* return true is reached
      Handlers |-> IF SlotTruthy(Events)
                   THEN [H EXCEPT ![key] = ArraySlot(run.list)] ELSE H,
      calls |-> run.calls,
      threw |-> run.threw,
      rest |-> IF Len(rest) = 1 /\ TypeOf(rest[1]) = "object"
               THEN << args >> ELSE rest]

\* remote emitHandler(identifier, ...rest): the string pushed on socketPump
remoteEmit(identifier, rest) ==
  LET a1 == IF Len(rest) >= 1 THEN rest[1] ELSE Undefined
      args0 == IF Truthy(a1) THEN a1 ELSE Arr(<< >>)
      args == IF Len(rest) + 1 > 2 THEN Arr(rest) ELSE args0
  IN IF TypeOf(args) = "object"
     THEN JSONstringify(SetProp(args, "identifier", Str(identifier)))
     ELSE JSONstringify(Obj({ <<"identifier", Str(identifier)>>,
                              <<"arguments", args>> }))

\* messageHandler(message): Json = JSON.parse(message.data)
messageHandler(H, Json) ==
  LET identifier == camelCaseAlnum(GetProp(Json, "identifier").str)
      Events == H[identifier]
      run == IF SlotTruthy(Events)
             THEN forEach(Events.list, 1, Len(Events.list), Json)
             ELSE [calls |-> << >>, threw |-> FALSE, list |-> << >>]
  IN [calls |-> run.calls,
      threw |-> run.threw,
      Handlers |-> IF SlotTruthy(Events)
                   THEN [H EXCEPT ![identifier] = ArraySlot(run.list)] ELSE H]

\* the frames the peer sends
Frames ==
  { Obj({ <<"identifier", Str(r)>>, <<"value", Num(7)>> }) : r \in RawIds }

\* line 202 with the handle kept:  pumpInterval = window.setInterval(...)
armPumpStored == [pumpInterval |-> "timer", timer |-> TRUE]

\* line 202:  if (!pumpInterval) window.setInterval(pumpHandler, 250)
\* the timer is started and its handle is not stored
armPump == [pumpInterval |-> "null", timer |-> TRUE]

\* ------------------------------------------------------------ state
VARIABLES
  Handlers,      \* Handlers[ch]: the registry of channel ch
  socketPump,    \* remote outbound queue: << [seq, data] >>
  Client,        \* 0 (null) or the index in sockets of the current socket
  pumpInterval,  \* the stored timer handle: "null" or "timer"
  timer,         \* TRUE while the host keeps calling pumpHandler
  sockets,       \* readyState of every WebSocket created so far
  sent,          \* Client.send calls so far: << [seq, sock] >>
  emitted,       \* payloads pushed so far (gives seq)
  last           \* the last call or event and what it did

vars ==
  << Handlers, socketPump, Client, pumpInterval, timer, sockets, sent,
     emitted, last >>

transport == << socketPump, Client, pumpInterval, timer, sockets, sent, emitted >>

Live == { "CONNECTING", "OPEN" }

Op(op) ==
  [op |-> op, ch |-> "none", id |-> << >>, argc |-> 0, rest |-> << >>,
   calls |-> << >>, threw |-> FALSE, matched |-> FALSE, sock |-> 0,
   created |-> 0, before |-> << >>]

Init ==
  /\ Handlers = [ch \in Channels |-> EmptyHandlers]
  /\ socketPump = << >>
  /\ Client = 0
  /\ pumpInterval = armPump.pumpInterval
  /\ timer = armPump.timer
  /\ sockets = << >>
  /\ sent = << >>
  /\ emitted = 0
  /\ last = Op("init")

TotalEntries == EntryCount(Handlers["local"]) + EntryCount(Handlers["remote"])

ChannelOf(isLocal) == IF isLocal THEN "local" ELSE "remote"

\* socketPump.push(data)
push(data) ==
  /\ Len(socketPump) < MaxQueue
  /\ emitted < MaxEmits
  /\ socketPump' = Append(socketPump, [seq |-> emitted + 1, data |-> data])
  /\ emitted' = emitted + 1

\* ------------------------------------------------------------ facade
\* $events.$on(identifier, isLocal, callback)
On(identifier, isLocal, callback) ==
  /\ TotalEntries < MaxEntries
  /\ Handlers' = [Handlers EXCEPT ![ChannelOf(isLocal)] =
                    attachHandler(@, identifier, Fn(callback), "$events")]
  /\ last' = [Op("$on") EXCEPT !.ch = ChannelOf(isLocal), !.id = identifier]
  /\ UNCHANGED transport

\* $events.$once(identifier, isLocal, callback)
Once(identifier, isLocal, callback) ==
  /\ TotalEntries < MaxEntries
  /\ Handlers' = [Handlers EXCEPT ![ChannelOf(isLocal)] =
                    attachHandler(@, identifier, OnceWrapper(callback), "$events")]
  /\ last' = [Op("$once") EXCEPT !.ch = ChannelOf(isLocal), !.id = identifier]
  /\ UNCHANGED transport

\* $events.$off(identifier, callback): both detach calls get three arguments
Off(identifier, callback) ==
  LET l == detachHandler(Handlers["local"], << identifier, Fn(callback), "$events" >>)
      r == detachHandler(Handlers["remote"], << identifier, Fn(callback), "$events" >>)
  IN /\ Handlers' = [Handlers EXCEPT !["local"] = l.Handlers,
                                     !["remote"] = r.Handlers]
     /\ last' = [Op("$off") EXCEPT !.id = identifier, !.argc = 2,
                                   !.rest = << Fn(callback) >>,
                                   !.threw = l.threw \/ r.threw,
                                   !.matched = (l.Handlers # Handlers["local"]
                                                \/ r.Handlers # Handlers["remote"])]
     /\ UNCHANGED transport

\* $events.$emit(identifier, ...rest)
Emit(identifier, rest) ==
  LET l == localEmit(Handlers["local"], identifier, rest)
  IN /\ last' = [Op("$emit") EXCEPT !.id = identifier, !.argc = Len(rest) + 1,
                                    !.rest = rest,
                                    !.calls = l.calls, !.threw = l.threw,
                                    !.matched = l.matched]
     /\ Handlers' = [Handlers EXCEPT !["local"] = l.Handlers]
     /\ IF ~l.threw /\ ~l.matched
        THEN push(remoteEmit(identifier, l.rest))
        ELSE UNCHANGED << socketPump, emitted >>
     /\ UNCHANGED << Client, pumpInterval, timer, sockets, sent >>

\* ------------------------------------------------------------ mixin
\* the values an events map can hold under a name: a bare callback, or an
\* object with a local function, a remote function, or both
Declarations ==
  { Fn(c) : c \in Callbacks }
    \cup { Decl(c, TRUE, FALSE) : c \in Callbacks }
    \cup { Decl(c, FALSE, TRUE) : c \in Callbacks }
    \cup { Decl(c, TRUE, TRUE) : c \in Callbacks }

\* created() of a component whose events map is { name: value }
created(H, name, value) ==
  IF value.kind = "fn"
  THEN [H EXCEPT !["local"] = attachHandler(@, name, value, "component")]
  ELSE LET withLocal ==
             IF value.local
             THEN [H EXCEPT !["local"] = attachHandler(@, name, value, "component")]
             ELSE H
       IN IF value.remote
          THEN [withLocal EXCEPT !["remote"] =
                  attachHandler(@, name, value, "component")]
          ELSE withLocal

\* beforeDestroy() of that component: only a name whose value is a function
\* is detached
beforeDestroy(H, name, value) ==
  IF value.kind = "fn"
  THEN [H EXCEPT !["local"] = detachHandler(@, << name, value >>).Handlers,
                 !["remote"] = detachHandler(@, << name, value >>).Handlers]
  ELSE H

\* a component is created; before remembers the registries it found
Created(name, value) ==
  /\ TotalEntries + 2 <= MaxEntries
  /\ Handlers' = created(Handlers, name, value)
  /\ last' = [Op("created") EXCEPT !.id = name, !.rest = << value >>,
                                   !.before = << Handlers >>]
  /\ UNCHANGED transport

\* the component just created is destroyed
BeforeDestroy ==
  /\ last.op = "created"
  /\ Handlers' = beforeDestroy(Handlers, last.id, last.rest[1])
  /\ last' = [Op("destroyed") EXCEPT !.id = last.id, !.rest = last.rest,
                                     !.before = last.before]
  /\ UNCHANGED transport

\* ------------------------------------------------------------ Vue.Events.local
\* Vue.Events.local.detach / Vue.Events.remote.detach called with args
Detach(ch, args) ==
  LET d == detachHandler(Handlers[ch], args)
  IN /\ Handlers' = [Handlers EXCEPT ![ch] = d.Handlers]
     /\ last' = [Op("detach") EXCEPT !.ch = ch, !.argc = Len(args), !.threw = d.threw]
     /\ UNCHANGED transport

DetachArgs ==
  { << >> } \cup { << r >> : r \in RawIds }
            \cup { << r, Fn(c) >> : r \in RawIds, c \in Callbacks }

\* Vue.Events.local.emit(identifier, ...rest)
LocalEmit(identifier, rest) ==
  LET l == localEmit(Handlers["local"], identifier, rest)
  IN /\ last' = [Op("local.emit") EXCEPT !.ch = "local", !.id = identifier,
                                         !.argc = Len(rest) + 1, !.calls = l.calls,
                                         !.threw = l.threw, !.matched = l.matched]
     /\ Handlers' = [Handlers EXCEPT !["local"] = l.Handlers]
     /\ UNCHANGED transport

\* ------------------------------------------------------------ Vue.Events.remote
\* Vue.Events.remote.emit(identifier, ...rest)
RemoteEmit(identifier, rest) ==
  /\ push(remoteEmit(identifier, rest))
  /\ last' = [Op("remote.emit") EXCEPT !.ch = "remote", !.id = identifier,
                                       !.argc = Len(rest) + 1, !.rest = rest]
  /\ UNCHANGED << Handlers, Client, pumpInterval, timer, sockets, sent >>

\* connect(): Client = new WebSocket(...)
connect ==
  /\ Len(sockets) < MaxSockets
  /\ sockets' = Append(sockets, "CONNECTING")
  /\ Client' = Len(sockets) + 1

\* Vue.Events.remote.connect()
Connect ==
  /\ connect
  /\ last' = [Op("connect") EXCEPT !.created = Len(sockets) + 1]
  /\ UNCHANGED << Handlers, socketPump, pumpInterval, timer, sent, emitted >>

\* Vue.Events.remote.disconnect(): Client.close() starts the closing handshake
Disconnect ==
  /\ IF Client # 0
     THEN /\ sockets' = [sockets EXCEPT ![Client] =
                           IF @ \in Live THEN "CLOSING" ELSE @]
          /\ Client' = 0
     ELSE UNCHANGED << sockets, Client >>
  /\ last' = [Op("disconnect") EXCEPT !.sock = Client]
  /\ UNCHANGED << Handlers, socketPump, pumpInterval, timer, sent, emitted >>

\* a forEach that walks the queue from its end
RECURSIVE sendAllReversed(_, _, _)
sendAllReversed(queue, i, sock) ==
  IF i > Len(queue) THEN << >>
  ELSE sendAllReversed(queue, i + 1, sock) \o << [seq |-> queue[i].seq, sock |-> sock] >>

\* a forEach that starts at the second item
RECURSIVE sendAllButFirst(_, _, _)
sendAllButFirst(queue, i, sock) ==
  IF i + 1 > Len(queue) THEN << >>
  ELSE << [seq |-> queue[i + 1].seq, sock |-> sock] >>
         \o sendAllButFirst(queue, i + 1, sock)

\* socketPump.forEach((item) => Client.send(item))
RECURSIVE sendAll(_, _, _)
sendAll(queue, i, sock) ==
  IF i > Len(queue) THEN << >>
  ELSE << [seq |-> queue[i].seq, sock |-> sock] >> \o sendAll(queue, i + 1, sock)

\* a tick that sends the queue but leaves out  socketPump.length = 0
PumpKeepsQueue ==
  /\ timer
  /\ IF socketPump = << >>
     THEN /\ last' = Op("pump")
          /\ UNCHANGED << socketPump, Client, sockets, sent >>
     ELSE /\ IF Client = 0 THEN connect ELSE UNCHANGED << Client, sockets >>
          /\ last' = [Op("pump") EXCEPT
                        !.created = IF Client = 0 THEN Client' ELSE 0,
                        !.sock = Client']
          /\ IF sockets'[Client'] = "OPEN"
             THEN /\ sent' = sent \o sendAll(socketPump, 1, Client')
                  /\ UNCHANGED socketPump
             ELSE UNCHANGED << socketPump, sent >>
  /\ UNCHANGED << Handlers, pumpInterval, timer, emitted >>

\* pumpHandler(): one tick of the 250 ms timer
Pump ==
  /\ timer
  /\ IF socketPump = << >>
     THEN /\ last' = Op("pump")
          /\ UNCHANGED << socketPump, Client, sockets, sent >>
     ELSE /\ IF Client = 0 THEN connect ELSE UNCHANGED << Client, sockets >>
          /\ last' = [Op("pump") EXCEPT
                        !.created = IF Client = 0 THEN Client' ELSE 0,
                        !.sock = Client']
          /\ IF sockets'[Client'] = "OPEN"
             THEN /\ sent' = sent \o sendAll(socketPump, 1, Client')
                  /\ socketPump' = << >>
             ELSE UNCHANGED << socketPump, sent >>
  /\ UNCHANGED << Handlers, pumpInterval, timer, emitted >>

\* the socket's open event: openHandler
SocketOpen(s) ==
  /\ s \in DOMAIN sockets
  /\ sockets[s] = "CONNECTING"
  /\ sockets' = [sockets EXCEPT ![s] = "OPEN"]
  /\ last' = [Op("open") EXCEPT !.sock = s]
  /\ UNCHANGED << Handlers, socketPump, Client, pumpInterval, timer, sent, emitted >>

\* the socket's error event: errorHandler; the connection is failing
SocketError(s) ==
  /\ s \in DOMAIN sockets
  /\ sockets[s] \in Live
  /\ sockets' = [sockets EXCEPT ![s] = "CLOSING"]
  /\ last' = [Op("error") EXCEPT !.sock = s]
  /\ UNCHANGED << Handlers, socketPump, Client, pumpInterval, timer, sent, emitted >>

\* closeHandler(close)
closeHandler ==
  /\ IF pumpInterval # "null"
     THEN /\ timer' = FALSE
          /\ pumpInterval' = "null"
     ELSE UNCHANGED << timer, pumpInterval >>
  /\ Client' = 0

\* the socket's close event
SocketClose(s) ==
  /\ s \in DOMAIN sockets
  /\ sockets[s] # "CLOSED"
  /\ sockets' = [sockets EXCEPT ![s] = "CLOSED"]
  /\ closeHandler
  /\ last' = [Op("close") EXCEPT !.sock = s]
  /\ UNCHANGED << Handlers, socketPump, sent, emitted >>

\* the socket's message event
SocketMessage(s, Json) ==
  /\ s \in DOMAIN sockets
  /\ sockets[s] \in { "OPEN", "CLOSING" }
  /\ LET m == messageHandler(Handlers["remote"], Json)
     IN /\ last' = [Op("message") EXCEPT !.ch = "remote", !.sock = s,
                                         !.id = GetProp(Json, "identifier").str,
                                         !.argc = 1, !.rest = << Json >>,
                                         !.calls = m.calls, !.threw = m.threw]
        /\ Handlers' = [Handlers EXCEPT !["remote"] = m.Handlers]
  /\ UNCHANGED transport

\* ------------------------------------------------------------ specifications
Next ==
  \/ \E r \in RawIds, l \in BOOLEAN, c \in Callbacks : On(r, l, c)
  \/ \E r \in RawIds, l \in BOOLEAN, c \in Callbacks : Once(r, l, c)
  \/ \E r \in RawIds, c \in Callbacks : Off(r, c)
  \/ \E ch \in Channels, a \in DetachArgs : Detach(ch, a)
  \/ \E r \in RawIds, a \in ArgLists : LocalEmit(r, a)
  \/ \E r \in RawIds, a \in ArgLists : Emit(r, a)
  \/ \E r \in RawIds, a \in ArgLists : RemoteEmit(r, a)
  \/ Connect
  \/ Disconnect
  \/ Pump
  \/ \E s \in 1..MaxSockets : SocketOpen(s)
  \/ \E s \in 1..MaxSockets : SocketError(s)
  \/ \E s \in 1..MaxSockets : SocketClose(s)
  \/ \E s \in 1..MaxSockets, f \in Frames : SocketMessage(s, f)

Spec == Init /\ [][Next]_vars

\* the argument lists used where the registries are explored
FacadeArgLists == { << >>, << Obj({ <<"name", Str(<<"x">>)>> }) >> }

\* the local channel and the facade's $emit, driven by callers
NextLocal ==
  \/ \E r \in RawIds, c \in Callbacks : On(r, TRUE, c)
  \/ \E r \in RawIds, c \in Callbacks : Once(r, TRUE, c)
  \/ \E a \in DetachArgs : Detach("local", a)
  \/ \E r \in RawIds, a \in FacadeArgLists : LocalEmit(r, a)
  \/ \E r \in RawIds, a \in FacadeArgLists : Emit(r, a)

SpecLocal == Init /\ [][NextLocal]_vars

\* the remote transport engine: queue, timer and sockets
NextRemote ==
  \/ \E r \in RawIds, a \in ArgLists : RemoteEmit(r, a)
  \/ Connect
  \/ Disconnect
  \/ Pump
  \/ \E s \in 1..MaxSockets : SocketOpen(s)
  \/ \E s \in 1..MaxSockets : SocketError(s)
  \/ \E s \in 1..MaxSockets : SocketClose(s)

SpecRemote == Init /\ [][NextRemote]_vars

\* dispatch on both channels: local emit and inbound frames
NextDispatch ==
  \/ \E r \in RawIds, l \in BOOLEAN, c \in Callbacks : On(r, l, c)
  \/ \E r \in RawIds, l \in BOOLEAN, c \in Callbacks : Once(r, l, c)
  \/ \E ch \in Channels, a \in DetachArgs : Detach(ch, a)
  \/ \E r \in RawIds : LocalEmit(r, << >>)
  \/ Connect
  \/ \E s \in 1..MaxSockets : SocketOpen(s)
  \/ \E s \in 1..MaxSockets, f \in Frames : SocketMessage(s, f)

SpecDispatch == Init /\ [][NextDispatch]_vars

\* the facade's registration calls on both channels, with bulk detach
NextFacade ==
  \/ \E r \in RawIds, l \in BOOLEAN, c \in Callbacks : On(r, l, c)
  \/ \E r \in RawIds, l \in BOOLEAN, c \in Callbacks : Once(r, l, c)
  \/ \E r \in RawIds, c \in Callbacks : Off(r, c)
  \/ \E ch \in Channels, r \in RawIds : Detach(ch, << r >>)

SpecFacade == Init /\ [][NextFacade]_vars

\* The transport engine where emit, connect(), disconnect() and the sockets'
\* error and close events happen only finitely often: they need a socket
\* still to be created, so the last socket is left in peace.
Disruption ==
  /\ Len(sockets) < MaxSockets
  /\ \/ Connect
     \/ Disconnect
     \/ \E s \in 1..MaxSockets : SocketError(s)
     \/ \E s \in 1..MaxSockets : SocketClose(s)

\* a failing or closing socket fires its close event
ClosingCloses(s) ==
  /\ Len(sockets) < MaxSockets
  /\ s \in DOMAIN sockets
  /\ sockets[s] = "CLOSING"
  /\ SocketClose(s)

NextLive ==
  \/ \E r \in RawIds, a \in ArgLists : RemoteEmit(r, a)
  \/ Disruption
  \/ Pump
  \/ \E s \in 1..MaxSockets : SocketOpen(s)

\* window.setInterval keeps calling pumpHandler; a socket that is connecting
\* opens; a socket that is closing closes
Fairness ==
  /\ WF_vars(Pump)
  /\ \A s \in 1..MaxSockets : WF_vars(SocketOpen(s))
  /\ \A s \in 1..MaxSockets : WF_vars(ClosingCloses(s))

SpecLive == Init /\ [][NextLive]_vars /\ Fairness

\* components that declare events, next to registrations made by hand
NextLifecycle ==
  \/ \E r \in RawIds, l \in BOOLEAN, c \in Callbacks : On(r, l, c)
  \/ \E r \in RawIds, v \in Declarations : Created(r, v)
  \/ BeforeDestroy
  \/ \E r \in RawIds : LocalEmit(r, << >>)

SpecLifecycle == Init /\ [][NextLifecycle]_vars

\* dispatch on both channels with callbacks that detach themselves
NextReentrant ==
  \/ \E r \in RawIds, l \in BOOLEAN, c \in Callbacks \cup SelfDetaching : On(r, l, c)
  \/ \E r \in RawIds : LocalEmit(r, << >>)
  \/ Connect
  \/ \E s \in 1..MaxSockets : SocketOpen(s)
  \/ \E s \in 1..MaxSockets, f \in Frames : SocketMessage(s, f)

SpecReentrant == Init /\ [][NextReentrant]_vars

\* ------------------------------------------------------------ normalization
\* the characters raw identifiers are drawn from
RawAlphabet == { "a", "1", "-" }

RawStrings == UNION { [1..n -> RawAlphabet] : n \in 0..MaxIdLen }

\* a caller holds a raw identifier
InitNormalize ==
  /\ Init!1 /\ Init!2 /\ Init!3 /\ Init!4 /\ Init!5 /\ Init!6 /\ Init!7 /\ Init!8
  /\ \E s \in RawStrings : last = [Op("raw") EXCEPT !.id = s]

\* identifier = identifier.replace(/-([A-Za-z0-9])/gi, ...) as attach, detach
\* and the inbound dispatch do it; rest remembers the raw identifier
Normalize ==
  /\ last.op = "raw"
  /\ last' = [Op("normalize") EXCEPT !.id = camelCaseAlnum(last.id),
                                     !.rest = << Str(last.id) >>]
  /\ UNCHANGED << Handlers, transport >>

\* the result is handed to attach, detach or dispatch again
Renormalize ==
  /\ last.op = "normalize"
  /\ last' = [Op("renormalize") EXCEPT !.id = camelCaseAlnum(last.id),
                                       !.rest = last.rest]
  /\ UNCHANGED << Handlers, transport >>

NextNormalize == Normalize \/ Renormalize

SpecNormalize == InitNormalize /\ [][NextNormalize]_vars

\* ------------------------------------------------------------ claims
\* the entries a registry holds under a key
EntriesOf(H, key) == IF SlotTruthy(H[key]) THEN H[key].list ELSE << >>

\* how often user callback c was run in a sequence of calls
RECURSIVE Runs(_, _)
Runs(calls, c) ==
  IF calls = << >> THEN 0
  ELSE (IF Head(calls).ran = c THEN 1 ELSE 0) + Runs(Tail(calls), c)

\* C1: local-first routing.  Whenever the local registry holds at least one
\* entry under the normalized identifier (the key attach files it under),
\* $emit(id, ...) invokes local handlers and appends nothing to the outbound
\* queue.
C1_LocalFirst ==
  [][ (last'.op = "$emit"
        /\ EntriesOf(Handlers["local"], camelCaseAlnum(last'.id)) # << >>)
      => (last'.calls # << >> /\ socketPump' = socketPump) ]_vars

\* C2: remote fallback.  Whenever the local registry holds no entry for the
\* identifier, local emit reports no match and $emit(id) appends exactly one
\* payload to the outbound queue.
C2_RemoteFallback ==
  [][ (last'.op = "$emit"
        /\ EntriesOf(Handlers["local"], camelCaseAlnum(last'.id)) = << >>)
      => (~last'.matched /\ Len(socketPump') = Len(socketPump) + 1) ]_vars

\* the key a dispatch looks the handlers up under
DispatchKey(l) ==
  IF l.op = "message" THEN camelCaseAlnum(l.id) ELSE camelCaseAlpha(l.id)

IsDispatch(l) == l.op \in { "local.emit", "message" }

\* C3: once-semantics.  When the dispatched identifier holds exactly one
\* entry for callback c and that entry is a once-wrapper, the dispatch runs c
\* exactly once and removes the wrapper (so a second dispatch cannot run c).
C3_OnceSemantics ==
  [][ \A c \in Callbacks :
        LET list == EntriesOf(Handlers[last'.ch], DispatchKey(last'))
            mine == { i \in DOMAIN list :
                        list[i].callback \in { Fn(c), OnceWrapper(c) } }
        IN (IsDispatch(last')
             /\ Cardinality(mine) = 1
             /\ \A i \in mine : list[i].callback = OnceWrapper(c))
           => /\ Runs(last'.calls, c) = 1
              /\ \A e \in { EntriesOf(Handlers'[last'.ch], DispatchKey(last'))[i] :
                             i \in DOMAIN EntriesOf(Handlers'[last'.ch],
                                                    DispatchKey(last')) } :
                   e.callback # OnceWrapper(c) ]_vars

\* C4: outbound FIFO.  Payloads reach Client.send in the order they were
\* pushed: the i-th send call carries the i-th payload ever enqueued.
C4_OutboundFIFO ==
  \A i \in DOMAIN sent : sent[i].seq = i

\* two payloads queued together were sent in one tick, to one socket
C4_Witness ==
  /\ last.op = "pump"
  /\ Len(sent) >= 2
  /\ sent[1].sock = sent[2].sock

\* C5: the queue survives cancellation.  disconnect() and the close reaction
\* leave the queue as it is and the timer running, and a tick that finds a
\* non-empty queue and no connection handle creates a fresh socket.
C5_QueueSurvives ==
  [][ /\ (last'.op \in { "disconnect", "close" })
          => (socketPump' = socketPump /\ timer')
      /\ (last'.op = "pump" /\ socketPump # << >> /\ Client = 0)
          => /\ sockets' = Append(sockets, "CONNECTING")
             /\ Client' = Len(sockets) + 1
             /\ last'.created = Client' ]_vars

\* the tick after a close event reconnects for the payloads still queued
C5_Witness ==
  /\ last.op = "pump"
  /\ last.created = 2
  /\ sockets[1] = "CLOSED"
  /\ socketPump # << >>

\* the sockets that are connecting or open
LiveSockets == { s \in DOMAIN sockets : sockets[s] \in Live }

\* C6: single live connection.  At most one socket created by the engine is
\* connecting or open at any time.
C6_SingleLive ==
  Cardinality(LiveSockets) <= 1

\* C7: bulk detach.  detach() with no argument completes without error and
\* leaves the registry without any identifier.
C7_BulkDetach ==
  (last.op = "detach" /\ last.argc = 0)
    => (~last.threw /\ Handlers[last.ch] = EmptyHandlers)

\* C8: registry ordering.  A dispatch of an identifier invokes every entry
\* attached under it, once each, in attachment order.
C8_RegistryOrdering ==
  [][ IsDispatch(last')
      => LET list == EntriesOf(Handlers[last'.ch], camelCaseAlnum(last'.id))
         IN /\ Len(last'.calls) = Len(list)
            /\ \A i \in DOMAIN list : last'.calls[i].callback = list[i].callback ]_vars

\* the envelope the specification describes for emit(id, ...rest)
Envelope(id, rest) ==
  IF Len(rest) = 1 /\ rest[1].type = "object"
  THEN SetProp(rest[1], "identifier", Str(id))
  ELSE Obj({ <<"identifier", Str(id)>>,
             <<"arguments", IF Len(rest) = 1 THEN rest[1] ELSE Arr(rest)>> })

\* C9: outbound envelope shape.  The payload remote emit(id, ...rest) appends
\* is the sole structured argument plus the identifier field, and otherwise
\* {identifier: id, arguments: rest}.
C9_EnvelopeShape ==
  [][ last'.op = "remote.emit"
      => socketPump'[Len(socketPump')].data = Envelope(last'.id, last'.rest) ]_vars

\* C10: inbound routing.  A frame with identifier X invokes exactly the
\* entries of the remote registry under the normalized X, in order, each with
\* the whole parsed frame, and changes neither registry, nor the queue, nor
\* the connection handle.
C10_InboundRouting ==
  [][ last'.op = "message"
      => LET list == EntriesOf(Handlers["remote"], camelCaseAlnum(last'.id))
         IN /\ Len(last'.calls) = Len(list)
            /\ \A i \in DOMAIN list :
                 /\ last'.calls[i].callback = list[i].callback
                 /\ last'.calls[i].arg = last'.rest[1]
            /\ Handlers' = Handlers
            /\ socketPump' = socketPump
            /\ Client' = Client ]_vars

\* a dash, a dash and then a letter or digit somewhere in s
HasDashDashAlnum(s) ==
  \E i \in 1..(Len(s) - 2) :
    s[i] = "-" /\ s[i + 1] = "-" /\ s[i + 2] \in Letters \cup Digits

\* C11 as stated: for every raw identifier over letters, digits and dashes,
\* consecutive dashes included, normalizing the normalized identifier again
\* gives the same identifier.
C11_Idempotent ==
  [][ last'.op = "renormalize" => last'.id = last.id ]_vars

\* C11 amended: for every raw identifier in which no two consecutive dashes
\* are followed by a letter or digit, normalizing the normalized identifier
\* again gives the same identifier.
C11_IdempotentNoDashDash ==
  [][ (last'.op = "renormalize" /\ ~HasDashDashAlnum(last'.rest[1].str))
      => last'.id = last.id ]_vars

\* a raw identifier without such dashes that normalization changed has been
\* normalized twice
C11_Witness ==
  /\ last.op = "renormalize"
  /\ ~HasDashDashAlnum(last.rest[1].str)
  /\ last.rest[1].str # last.id
  /\ \E i \in DOMAIN last.rest[1].str : last.rest[1].str[i] = "1"

\* C12: normalization consistency.  For every raw identifier s, dash-digit
\* ones included, handlers attached locally under s (plain functions here)
\* are all invoked by a local emit of s, and the emit reports a match.
C12_NormalizationConsistency ==
  [][ LET list == EntriesOf(Handlers["local"], camelCaseAlnum(last'.id))
      IN (last'.op = "local.emit"
           /\ list # << >>
           /\ \A i \in DOMAIN list : list[i].callback.kind = "fn")
         => (last'.matched /\ Len(last'.calls) = Len(list)) ]_vars

\* list without the entries whose callback is cb or a once-wrapper of cb
Without(list, cb) ==
  LET keep(e) == e.callback # cb /\ FnOf(e.callback) # cb
  IN SelectSeq(list, keep)

\* C13: $off(id, cb) removes from both registries every entry under id whose
\* callback is cb or a once-wrapper of cb, leaves every other entry and every
\* other slot as it was and in order (so it changes nothing when id or cb is
\* not registered), never raises, and a second $off(id, cb) changes nothing
\* more.
C13_OffRemovesBoth ==
  [][ last'.op = "$off" =>
        LET cb == last'.rest[1]
            key == camelCaseAlnum(last'.id)
        IN /\ ~last'.threw
           /\ \A ch \in Channels :
                /\ \A k \in Keys :
                     Handlers'[ch][k] =
                       IF k = key /\ SlotTruthy(Handlers[ch][k])
                       THEN ArraySlot(Without(Handlers[ch][k].list, cb))
                       ELSE Handlers[ch][k]
                /\ detachHandler(Handlers'[ch], << last'.id, cb, "$events" >>)
                     = [Handlers |-> Handlers'[ch], threw |-> FALSE] ]_vars

\* $off has removed something and another entry is still registered
C13_Witness ==
  /\ last.op = "$off"
  /\ last.matched
  /\ \E ch \in Channels, k \in Keys : Handlers[ch][k].list # << >>

\* C14: eventual delivery.  With flush ticks that keep occurring, sockets
\* that open, and emits, disconnects and socket close/error events that
\* happen only finitely often, every payload appended to the outbound queue
\* is eventually passed to send.
C14_EventualDelivery ==
  \A n \in 1..MaxEmits :
    (emitted >= n) ~> (\E i \in DOMAIN sent : sent[i].seq = n)

\* a payload queued while no connection existed has been sent on a socket
\* created after an earlier socket was lost
C14_Witness ==
  /\ sent # << >>
  /\ \E i \in DOMAIN sent : sent[i].sock > 1
  /\ sockets[1] = "CLOSED"

\* the sequence numbers of the payloads in a sequence of items
SeqsOf(items) == { items[i].seq : i \in DOMAIN items }

\* C15: no loss or duplication at the queue.  Every payload pushed so far is
\* either in the queue or has been sent, never both, and exactly once.  A
\* payload leaves the queue only in a flush tick that finds the current
\* connection open, and that tick sends it; a tick that finds the queue
\* empty changes nothing and creates no connection; a tick that finds the
\* connection not open leaves the queue as it is.
C15_NoLossNoDuplication ==
  [][ /\ SeqsOf(socketPump') \cup SeqsOf(sent') = 1..emitted'
      /\ Len(socketPump') + Len(sent') = emitted'
      /\ (\E i \in DOMAIN socketPump : socketPump[i] \notin
                                          { socketPump'[j] : j \in DOMAIN socketPump' })
           => /\ last'.op = "pump"
              /\ Client' # 0
              /\ sockets'[Client'] = "OPEN"
              /\ sent' = sent \o [i \in DOMAIN socketPump |->
                                    [seq |-> socketPump[i].seq, sock |-> Client']]
      /\ (last'.op = "pump" /\ socketPump = << >>)
           => UNCHANGED << socketPump, sent, sockets, Client >>
      /\ (last'.op = "pump" /\ socketPump # << >> /\ sockets'[Client'] # "OPEN")
           => UNCHANGED << socketPump, sent >> ]_vars

\* a tick found the connection still connecting and kept the queue, and an
\* earlier tick has sent a payload
C15_Witness ==
  /\ last.op = "pump"
  /\ socketPump # << >>
  /\ sent # << >>
  /\ Client # 0
  /\ sockets[Client] = "CONNECTING"

\* C16: close reaction.  When the close event of the current socket is
\* handled while the periodic flush process is active, the handle becomes
\* absent and the flush process is cancelled.
C16_CloseCancelsFlush ==
  [][ (last'.op = "close" /\ last'.sock = Client /\ timer)
      => (Client' = 0 /\ ~timer') ]_vars

\* C17: registry shape.  In both registries every identifier is either
\* absent or mapped to a non-empty sequence of entries; removing the last
\* entry leaves it absent, never an empty sequence or a null placeholder.
C17_RegistryShape ==
  \A ch \in Channels, k \in Keys :
    \/ Handlers[ch][k] = NoSlot
    \/ (Handlers[ch][k].tag = "array" /\ Handlers[ch][k].list # << >>)

\* C18: subscriber lifecycle.  For every shape of declaration, once a
\* component has been created and then destroyed both registries hold the
\* entries they held before its creation (an emptied slot is taken as equal
\* to an absent one here), and no entry of the component is left to be
\* invoked.
C18_Lifecycle ==
  last.op = "destroyed" =>
    \A ch \in Channels, k \in Keys :
      /\ EntriesOf(Handlers[ch], k) = EntriesOf(last.before[1][ch], k)
      /\ \A i \in DOMAIN Handlers[ch][k].list :
           Handlers[ch][k].list[i].thisArg # "component"

\* how many entries of list hold callback cb
Holds(list, cb) == Cardinality({ i \in DOMAIN list : list[i].callback = cb })

\* C19: dispatch is robust to detach during dispatch.  When the dispatched
\* identifier holds plain callbacks of which one detaches itself while it
\* runs, every entry of a callback that was attached at the start and is
\* not detached is still invoked exactly once.
C19_DetachDuringDispatch ==
  [][ LET list == EntriesOf(Handlers[last'.ch], DispatchKey(last'))
      IN (IsDispatch(last')
           /\ \A i \in DOMAIN list : list[i].callback.kind = "fn"
           /\ \E j \in DOMAIN list : list[j].callback.name \in SelfDetaching)
         => \A c \in Callbacks : Runs(last'.calls, c) = Holds(list, Fn(c)) ]_vars

\* C20: fallback payload equivalence.  When $emit(id, payload) finds no
\* local match and queues a payload, that payload is what remote emit of the
\* caller's arguments alone would queue: the failed local attempt adds,
\* removes or changes no field.
C20_FallbackPayload ==
  [][ (last'.op = "$emit" /\ Len(socketPump') = Len(socketPump) + 1)
      => socketPump'[Len(socketPump')].data = remoteEmit(last'.id, last'.rest) ]_vars

====
